---------------------------- MODULE Spec2Model ----------------------------
(***************************************************************************)
(* pydrive: a OneDrive mirror.  The sync engine (src/fsapi.py, GraphDrive) *)
(* polls a delta feed and maintains a path-indexed cache; the              *)
(* authenticator (src/auth.py, GraphAuth) keeps a bearer token valid.      *)
(*                                                                         *)
(* Strings are modelled as sequences of one-character strings, so that     *)
(* the path arithmetic of the source (partition, rpartition, '%s' % ...)   *)
(* is computed, not assumed.                                               *)
(***************************************************************************)
EXTENDS Integers, Sequences, FiniteSets, TLC

VARIABLES
    \* ---- sync engine (src/fsapi.py) ----
    cache,      \* GraphDrive._cache: the persistent mapping key -> value
    pc,         \* position of the poll thread in _poll_with_delta
    nextlink,   \* local variable nextlink of _poll_with_delta (0 = None / '')
    items,      \* the items of the current page not yet iterated over
    err,        \* the exception that ended the poll thread ("" = none)
    feed,       \* the remote change feed: the pages the server has produced
    remote,     \* the remote drive: id -> item, or NoItem
    restarts,   \* number of process restarts so far
    bootCursor, \* cache['delta'] as the constructor of this run found it
    polled,     \* TRUE once this run has received a response
    curPage,    \* index of the page whose items are being applied
    done,       \* pages whose items have all been applied (over all runs)
    ckpt,       \* value of done when the persisted cursor was written
    \* ---- authenticator (src/auth.py) ----
    access,     \* GraphAuth._access_token (0 = None)
    expires,    \* GraphAuth.expires
    refreshTok, \* GraphAuth.refresh_token (0 = None)
    lockOwner,  \* the thread holding GraphAuth._lock (0 = free)
    now,        \* the clock, datetime.utcnow()
    apc,        \* position of each thread in access_token / refresh
    inToken,    \* TRUE while the thread's refresh() was called by access_token
    resp,       \* the token endpoint's response, local variable r of refresh
    valid,      \* the refresh tokens the authority accepts
    grants,     \* number of grants of the token endpoint so far
    calls,      \* number of calls each thread has made
    nreq,       \* requests sent by the thread's current call
    seen,       \* what the thread's check of line 42 read
    wexp,       \* the expiry the thread wrote in line 61
    ret,        \* the value the thread's call returned
    exc,        \* the exception the thread's call raised ("" = none)
    expiryOf,   \* access token -> expiry stored with it by the same update
    \* ---- device-code grant (src/auth.py, GraphAuth.authenticate) ----
    dpc,        \* position of the caller in authenticate
    dexp,       \* local variable expires: the device code's expiry
    interval,   \* local variable interval
    data,       \* local variable data: the grant, or NoData
    answers,    \* the token endpoint's answers to the poll requests so far
    pollTimes,  \* the time of each poll request
    slept,      \* total time spent in time.sleep
    dexc,       \* the exception authenticate raised ("" = none)
    dret,       \* the value authenticate returned
    pre,        \* the token triple when authenticate was called
    \* ---- persistent cache (src/dbdict.py, DBDict) ----
    table,      \* the committed rows of the table, in rowid order
    connections,\* DBDict._connections: the threads that own a connection
    dres,       \* the last operation on the mapping and its outcome
    lastSet,    \* key -> the last value set and not deleted since, and by whom
    \* ---- queries of the index (src/fsapi.py, GraphDriveItem) ----
    qry,        \* the last query, the requests it sent and its result
    \* ---- the registry of drives (src/fsapi.py, GraphDrives) ----
    reg,        \* the last call of get_drive / get_me_drive and its outcome
    engines,    \* the engines the registry has returned so far
    \* ---- two engines bound to one drive's cache (src/fsapi.py) ----
    kids,       \* the children entry of one folder in the shared cache
    klock,      \* engine -> the thread holding its _children_lock (0 = free)
    kpc,        \* engine -> position of its poll thread in _added / _deleted
    klocal,     \* engine -> local variable parchildren
    kop,        \* engine -> the update its poll thread is making
    kseen,      \* the list the last children() call returned
    \* ---- filesystem handlers (src/fs.py, OnedriveFS) ----
    fsq,        \* the handler call in progress, its position and its result
    \* ---- concurrent DBDict.__setitem__ calls (src/dbdict.py) ----
    setter,     \* thread -> its __setitem__ call: position, arguments, outcome
    writer,     \* the thread whose connection holds the write lock (0 = none)
    pending     \* the rows as the writer's open transaction has them

syncVars == <<cache, pc, nextlink, items, err, feed, remote,
              restarts, bootCursor, polled, curPage, done, ckpt>>

authVars == <<access, expires, refreshTok, lockOwner, now, apc, inToken, resp,
              valid, grants, calls, nreq, seen, wexp, ret, exc,
              expiryOf>>

devVars == <<dpc, dexp, interval, data, answers, pollTimes, slept, dexc, dret,
             pre>>

\* what GraphAuth.access_token and refresh keep for themselves
authCallVars == <<apc, inToken, resp, valid, grants, calls, nreq, seen, wexp,
                  ret, exc, expiryOf>>

dbVars == <<table, connections, dres, lastSet>>

qVars == <<qry>>

\* the poll thread's state apart from the index
pollVars == <<pc, nextlink, items, err, feed, remote, restarts, bootCursor,
              polled, curPage, done, ckpt>>

regVars == <<reg, engines>>

lockVars == <<kids, klock, kpc, klocal, kop, kseen>>

fsVars == <<fsq>>

raceVars == <<setter, writer, pending>>

vars == <<syncVars, authVars, devVars, dbVars, qVars, regVars, lockVars,
          fsVars, raceVars>>

nonSync == <<authVars, devVars, dbVars, qVars, regVars, lockVars, fsVars,
             raceVars>>
nonAuth == <<syncVars, devVars, dbVars, qVars, regVars, lockVars, fsVars,
             raceVars>>
nonDevice == <<syncVars, dbVars, qVars, regVars, lockVars, fsVars, raceVars>>
nonDb == <<syncVars, authVars, devVars, qVars, regVars, lockVars, fsVars,
           raceVars>>
nonQuery == <<pollVars, authVars, devVars, dbVars, regVars, lockVars, fsVars,
              raceVars>>
nonRegistry == <<syncVars, authVars, devVars, dbVars, qVars, lockVars, fsVars,
                 raceVars>>
nonLock == <<syncVars, authVars, devVars, dbVars, qVars, regVars, fsVars,
             raceVars>>
nonFs == <<syncVars, authVars, devVars, dbVars, qVars, regVars, lockVars,
           raceVars>>
nonRace == <<syncVars, authVars, devVars, qVars, regVars, lockVars, fsVars,
             dres, lastSet>>

-----------------------------------------------------------------------------
(* Bounds of the model *)

MaxPages == 2
MaxPageLen == 2
MaxChanges == 2
MaxRestarts == 1
MaxIds == 2
MaxTime == 2
MaxLifetime == 1
MaxGrants == 2
MaxCalls == 1
MaxDeviceLife == 4
MaxInterval == 2

-----------------------------------------------------------------------------
(* Strings *)

Docs == <<"d", "o", "c", "s">>
Report == <<"r", "e", "p", "o", "r", "t">>
Names == {Docs, Report}
RootName == <<"r", "o", "o", "t">>

\* The part of parentReference.path before the drive-relative path.
DrivePrefix == <<"/", "d", "r", "i", "v", "e", "/", "r", "o", "o", "t", ":">>

Slash == <<"/">>

\* str.partition(sep)[2]: what follows the first occurrence of sep, '' if none.
RECURSIVE PartitionTail(_, _)
PartitionTail(s, sep) ==
    IF s = <<>> THEN <<>>
    ELSE IF Head(s) = sep THEN Tail(s)
    ELSE PartitionTail(Tail(s), sep)

\* str.rpartition(sep)[0]: what precedes the last occurrence of sep, '' if none.
RPartitionHead(s, sep) ==
    LET idx == {i \in 1..Len(s) : s[i] = sep}
    IN  IF idx = {} THEN <<>>
        ELSE LET k == CHOOSE i \in idx : \A j \in idx : j <= i
             IN  SubSeq(s, 1, k - 1)

\* The cache keys of the three namespaces.
DeltaKey == <<"d", "e", "l", "t", "a">>
ChildrenKey(path) == <<"c">> \o path
TagKey(path) == <<"t">> \o path

-----------------------------------------------------------------------------
(* The mapping interface of the cache *)

Has(c, k) == k \in DOMAIN c
Get(c, k, dflt) == IF k \in DOMAIN c THEN c[k] ELSE dflt
Put(c, k, v) == [x \in (DOMAIN c) \cup {k} |-> IF x = k THEN v ELSE c[x]]
Pop(c, k) == [x \in (DOMAIN c) \ {k} |-> c[x]]

\* list.remove(x): drops the first occurrence of x.
RECURSIVE ListRemove(_, _)
ListRemove(l, x) ==
    IF l = <<>> THEN <<>>
    ELSE IF Head(l) = x THEN Tail(l)
    ELSE <<Head(l)>> \o ListRemove(Tail(l), x)

Elems(l) == {l[i] : i \in 1..Len(l)}

-----------------------------------------------------------------------------
(* Items of a delta page *)

NoItem == [id |-> 0 - 1]
Ids == 1..MaxIds

RootItem ==
    [id |-> 0, name |-> RootName, ppath |-> <<>>, root |-> TRUE,
     folder |-> TRUE, deleted |-> FALSE]

Item(i, n, pp, f, d) ==
    [id |-> i, name |-> n, ppath |-> DrivePrefix \o pp, root |-> FALSE,
     folder |-> f, deleted |-> d]

_get_path(item) ==
    IF item.root THEN Slash
    ELSE PartitionTail(item.ppath, ":") \o Slash \o item.name

-----------------------------------------------------------------------------
(* The remote drive and its change feed (the server) *)

Live == {i \in Ids : remote[i] # NoItem}

\* One change of the remote drive: the entry the feed reports for it and the
\* remote drive after it.  rem is the drive before the change.
Changes(rem) ==
    LET live == {i \in Ids : rem[i] # NoItem}
        pathOf(i) == SubSeq(rem[i].ppath, Len(DrivePrefix) + 1, Len(rem[i].ppath))
                        \o Slash \o rem[i].name
        paths == {pathOf(i) : i \in live}
        folders == {<<>>} \cup {pathOf(i) : i \in {j \in live : rem[j].folder}}
        childless(i) == \A j \in live : rem[j].ppath # DrivePrefix \o pathOf(i)
        created ==
            {[entry |-> Item(i, n, pp, f, FALSE),
              rem |-> [rem EXCEPT ![i] = Item(i, n, pp, f, FALSE)]] :
                <<i, n, pp, f>> \in
                    {q \in (Ids \ live) \X Names \X folders \X BOOLEAN :
                        /\ (q[3] \o Slash \o q[2]) \notin paths
                        /\ \A j \in Ids \ live : q[1] <= j}}
        resent == {[entry |-> rem[i], rem |-> rem] : i \in live}
        moved ==
            {[entry |-> Item(q[1], q[2], q[3], rem[q[1]].folder, FALSE),
              rem |-> [rem EXCEPT ![q[1]] =
                          Item(q[1], q[2], q[3], rem[q[1]].folder, FALSE)]] :
                q \in {r \in live \X Names \X folders :
                        /\ childless(r[1])
                        /\ (r[3] \o Slash \o r[2]) \notin paths
                        /\ r[3] # pathOf(r[1])}}
        deleted ==
            {[entry |-> [rem[i] EXCEPT !.deleted = TRUE],
              rem |-> [rem EXCEPT ![i] = NoItem]] :
                i \in {j \in live : childless(j)}}
    IN  created \cup resent \cup moved \cup deleted

\* The changes the server can report next: up to n changes in order.
RECURSIVE ChangesFrom(_, _)
ChangesFrom(rem, n) ==
    {[items |-> <<>>, rem |-> rem]} \cup
    (IF n = 0 THEN {}
     ELSE UNION {
            {[items |-> <<ch.entry>> \o p.items, rem |-> p.rem] :
                p \in ChangesFrom(ch.rem, n - 1)} :
            ch \in Changes(rem)})

Min(a, b) == IF a < b THEN a ELSE b

\* Page k of the feed, produced with the drive being rem and budget changes
\* left: the enumeration from the root endpoint (page 1) lists the root item
\* first.
PagesFrom(rem, k, budget) ==
    IF k = 1
    THEN {[items |-> <<RootItem>> \o p.items, rem |-> p.rem] :
            p \in ChangesFrom(rem, Min(MaxPageLen - 1, budget))}
    ELSE ChangesFrom(rem, Min(MaxPageLen, budget))

ChangesInFeed ==
    LET RECURSIVE Sum(_)
        Sum(k) == IF k = 0 THEN 0
                  ELSE Cardinality({i \in 1..Len(feed[k].items) :
                                        ~feed[k].items[i].root}) + Sum(k - 1)
    IN  Sum(Len(feed))

-----------------------------------------------------------------------------
(* GraphDrive *)

RootDelta == 1     \* the drive's root delta endpoint; it delivers page 1
NoLink == 0        \* '' and None: both falsy

\* GraphDrive._delta_link (getter)
DeltaLinkOf(c) == Get(c, DeltaKey, NoLink)

\* the target of the first request of a poll round
StartLinkAlwaysRoot(c) == RootDelta

StartLink(c) == IF DeltaLinkOf(c) # NoLink THEN DeltaLinkOf(c) ELSE RootDelta

\* GraphDrive._added: the cache after it
AddedNoRootFallback(c, item) ==
    LET path == _get_path(item)
        parent == RPartitionHead(path, "/")
    IN  IF ~item.root
        THEN Put(c, ChildrenKey(parent),
                 Append(Get(c, ChildrenKey(parent), <<>>), item.name))
        ELSE c

Added(c, item) ==
    LET path == _get_path(item)
        parent == IF RPartitionHead(path, "/") # <<>>
                  THEN RPartitionHead(path, "/") ELSE Slash
    IN  IF ~item.root
        THEN Put(c, ChildrenKey(parent),
                 Append(Get(c, ChildrenKey(parent), <<>>), item.name))
        ELSE c

\* lines 169-172 of the loop body: a non-deleted item
UpsertAlwaysAdd(c, item) == Put(Added(c, item), _get_path(item), item)

Upsert(c, item) ==
    LET path == _get_path(item)
    IN  Put(IF ~Has(c, path) THEN Added(c, item) ELSE c, path, item)

\* GraphDrive._deleted: the cache after it and the exception it raises, if any
Deleted(c, item, opt) ==
    LET path == _get_path(item)
        c1 == Pop(c, path)
        c2 == IF item.folder THEN Pop(c1, ChildrenKey(path)) ELSE c1
        parent == RPartitionHead(path, "/")
        parchildren == Get(c2, ChildrenKey(parent), <<>>)
    IN  IF ~Has(c, path) THEN [cache |-> c, err |-> ""]
        ELSE IF item.folder /\ ~Has(c1, ChildrenKey(path))
        THEN [cache |-> c1, err |-> "KeyError"]
        ELSE IF ~opt /\ ~Has(c2, parent)
        THEN [cache |-> c2, err |-> "AssertionError"]
        ELSE IF item.name \notin Elems(parchildren)
        THEN [cache |-> c2, err |-> "ValueError"]
        ELSE [cache |-> Put(c2, ChildrenKey(parent),
                            ListRemove(parchildren, item.name)),
              err |-> ""]

\* GraphDrive.__init__: the constructor writes back the delta link it reads
Construct(c) == Put(c, DeltaKey, Get(c, DeltaKey, NoLink))

SyncInit ==
    /\ cache = Construct(<<>>)
    /\ pc = "top"
    /\ nextlink = NoLink
    /\ items = <<>>
    /\ err = ""
    /\ feed = <<>>
    /\ remote = [i \in Ids |-> NoItem]
    /\ restarts = 0
    /\ bootCursor = NoLink
    /\ polled = FALSE
    /\ curPage = 0
    /\ done = {}
    /\ ckpt = {}

\* lines 149-151
LoopTop ==
    /\ pc = "top"
    /\ nextlink' = StartLink(cache)
    /\ pc' = "request"
    /\ UNCHANGED <<cache, items, err, feed, remote, restarts, bootCursor,
                   polled, curPage, done, ckpt>>

\* lines 154-158: the request or its JSON decoding raises; the exception is
\* caught and the thread sleeps poll_interval
RequestFailAdvances ==
    /\ pc = "request"
    /\ pc' = "retry"
    /\ nextlink' = nextlink + 1
    /\ UNCHANGED <<cache, items, err, feed, remote, restarts, bootCursor,
                   polled, curPage, done, ckpt>>

RequestFail ==
    /\ pc = "request"
    /\ pc' = "retry"
    /\ UNCHANGED <<cache, nextlink, items, err, feed, remote, restarts,
                   bootCursor, polled, curPage, done, ckpt>>

\* line 159: continue, back to the test of while nextlink
RetryAfterSleep ==
    /\ pc = "retry"
    /\ pc' = IF nextlink # NoLink THEN "request" ELSE "sleep"
    /\ UNCHANGED <<cache, nextlink, items, err, feed, remote, restarts,
                   bootCursor, polled, curPage, done, ckpt>>

\* lines 155, 161: the response is JSON but not a delta page (an error
\* payload, for one): r['value'] raises KeyError outside the try block
RequestMalformed ==
    /\ pc = "request"
    /\ pc' = "dead"
    /\ err' = "KeyError"
    /\ UNCHANGED <<cache, nextlink, items, feed, remote, restarts,
                   bootCursor, polled, curPage, done, ckpt>>

\* The server's answer to a request for link n: page n of the feed, produced
\* now when the feed ends before it.
Receive(page) ==
    /\ items' = page.items
    /\ curPage' = nextlink
    /\ nextlink' = IF page.terminal THEN NoLink ELSE nextlink + 1
    /\ IF page.terminal
       THEN /\ cache' = Put(cache, DeltaKey, nextlink + 1)
            /\ ckpt' = done
       ELSE UNCHANGED <<cache, ckpt>>
    /\ polled' = TRUE
    /\ pc' = "items"

\* lines 155, 161-164: a page is received
RequestOk ==
    /\ pc = "request"
    /\ \/ /\ nextlink <= Len(feed)
          /\ Receive(feed[nextlink])
          /\ UNCHANGED <<feed, remote>>
       \/ /\ nextlink = Len(feed) + 1
          /\ Len(feed) < MaxPages
          /\ \E p \in PagesFrom(remote, nextlink, MaxChanges - ChangesInFeed),
                term \in BOOLEAN :
                /\ feed' = Append(feed, [items |-> p.items, terminal |-> term])
                /\ remote' = p.rem
                /\ Receive([items |-> p.items, terminal |-> term])
    /\ UNCHANGED <<err, restarts, bootCursor, done>>

\* lines 165-172: one iteration of the loop over the page's items
ApplyItem ==
    /\ pc = "items"
    /\ items # <<>>
    /\ LET item == Head(items)
           path == _get_path(item)
       IN  IF item.deleted
           THEN \E opt \in BOOLEAN :
                LET r == Deleted(cache, item, opt)
                IN  /\ cache' = r.cache
                    /\ err' = r.err
                    /\ pc' = IF r.err = "" THEN "items" ELSE "dead"
           ELSE /\ cache' = Upsert(cache, item)
                /\ UNCHANGED <<pc, err>>
    /\ items' = Tail(items)
    /\ UNCHANGED <<nextlink, feed, remote, restarts, bootCursor, polled,
                   curPage, done, ckpt>>

\* line 152: the loop over the items is over; go on with the chain or sleep
EndOfPage ==
    /\ pc = "items"
    /\ items = <<>>
    /\ done' = done \cup {curPage}
    /\ pc' = IF nextlink # NoLink THEN "request" ELSE "sleep"
    /\ UNCHANGED <<cache, nextlink, items, err, feed, remote, restarts,
                   bootCursor, polled, curPage, ckpt>>

\* line 173
Sleep ==
    /\ pc = "sleep"
    /\ pc' = "top"
    /\ UNCHANGED <<cache, nextlink, items, err, feed, remote, restarts,
                   bootCursor, polled, curPage, done, ckpt>>

\* The process ends (at any point between two steps) and is started again on
\* the same cache file: GraphDrive.__init__ runs and starts a new poll thread.
Restart ==
    /\ restarts < MaxRestarts
    /\ restarts' = restarts + 1
    /\ cache' = Construct(cache)
    /\ bootCursor' = DeltaLinkOf(cache)
    /\ pc' = "top"
    /\ nextlink' = NoLink
    /\ items' = <<>>
    /\ err' = ""
    /\ polled' = FALSE
    /\ curPage' = 0
    /\ UNCHANGED <<feed, remote, done, ckpt>>

\* lines 155, 161-173: the server has delivered every change and answers the
\* delta link with an empty page that carries the same delta link
RequestIdle ==
    /\ pc = "request"
    /\ nextlink = Len(feed) + 1
    /\ nextlink # RootDelta
    /\ cache' = Put(cache, DeltaKey, nextlink)
    /\ nextlink' = NoLink
    /\ polled' = TRUE
    /\ pc' = "sleep"
    /\ UNCHANGED <<items, err, feed, remote, restarts, bootCursor, curPage,
                   done, ckpt>>

SyncNext ==
    \/ LoopTop /\ UNCHANGED nonSync
    \/ RequestFail /\ UNCHANGED nonSync
    \/ RetryAfterSleep /\ UNCHANGED nonSync
    \/ RequestOk /\ UNCHANGED nonSync
    \/ ApplyItem /\ UNCHANGED nonSync
    \/ EndOfPage /\ UNCHANGED nonSync
    \/ Sleep /\ UNCHANGED nonSync
    \/ Restart /\ UNCHANGED nonSync

-----------------------------------------------------------------------------
(* GraphAuth *)

Threads == {1, 2}
NoToken == 0

\* The refresh token a fresh credential may be seeded with: one the authority
\* accepts, or one it has revoked.
GoodRefresh == 1
RevokedRefresh == 2
\* The tokens of the k-th grant of the token endpoint.
AccessOf(k) == k + 1
RefreshOf(k) == k + 2

ErrorResp == [error |-> TRUE, access_token |-> NoToken, expires_in |-> 0,
              refresh_token |-> NoToken]
Grant(k, life) == [error |-> FALSE, access_token |-> AccessOf(k),
                   expires_in |-> life, refresh_token |-> RefreshOf(k)]

NoSeen == [now |-> 0 - 1, expires |-> 0 - 1, access |-> 0 - 1]

\* the state of the authenticator while the sync engine is looked at
AuthIdle ==
    /\ access = NoToken
    /\ expires = 0
    /\ refreshTok = NoToken
    /\ lockOwner = 0
    /\ now = 0
    /\ apc = [t \in Threads |-> "idle"]
    /\ inToken = [t \in Threads |-> FALSE]
    /\ resp = [t \in Threads |-> ErrorResp]
    /\ valid = {GoodRefresh}
    /\ grants = 0
    /\ calls = [t \in Threads |-> 0]
    /\ nreq = [t \in Threads |-> 0]
    /\ seen = [t \in Threads |-> NoSeen]
    /\ wexp = [t \in Threads |-> 0]
    /\ ret = [t \in Threads |-> NoToken]
    /\ exc = [t \in Threads |-> ""]
    /\ expiryOf = [k \in 0..(MaxGrants + 1) |-> 0]

\* GraphAuth.__init__: expires defaults to the time of construction
AuthInit ==
    /\ now = 1
    /\ access \in {NoToken, AccessOf(0)}
    /\ refreshTok \in {NoToken, GoodRefresh, RevokedRefresh}
    /\ expires \in 0..2
    /\ lockOwner = 0
    /\ apc = [t \in Threads |-> "idle"]
    /\ inToken = [t \in Threads |-> FALSE]
    /\ resp = [t \in Threads |-> ErrorResp]
    /\ valid = {GoodRefresh}
    /\ grants = 0
    /\ calls = [t \in Threads |-> 0]
    /\ nreq = [t \in Threads |-> 0]
    /\ seen = [t \in Threads |-> NoSeen]
    /\ wexp = [t \in Threads |-> 0]
    /\ ret = [t \in Threads |-> NoToken]
    /\ exc = [t \in Threads |-> ""]
    /\ expiryOf = [k \in 0..(MaxGrants + 1) |-> expires]

Returned(t) == apc[t] \in {"idle", "returned", "raised"}

Raise(t, e) ==
    /\ apc' = [apc EXCEPT ![t] = "raised"]
    /\ exc' = [exc EXCEPT ![t] = e]

\* a thread reads the access_token property: lines 40-41
CallToken(t) ==
    /\ Returned(t)
    /\ calls[t] < MaxCalls
    /\ calls' = [calls EXCEPT ![t] = calls[t] + 1]
    /\ IF access = NoToken /\ refreshTok = NoToken
       THEN Raise(t, "NoTokenError")
       ELSE /\ apc' = [apc EXCEPT ![t] = "L42"]
            /\ exc' = [exc EXCEPT ![t] = ""]
    /\ inToken' = [inToken EXCEPT ![t] = TRUE]
    /\ nreq' = [nreq EXCEPT ![t] = 0]
    /\ seen' = [seen EXCEPT ![t] = NoSeen]
    /\ ret' = [ret EXCEPT ![t] = NoToken]
    /\ UNCHANGED <<access, expires, refreshTok, lockOwner, now, resp, valid,
                   grants, wexp, expiryOf>>

\* a thread calls refresh() itself
CallRefresh(t) ==
    /\ Returned(t)
    /\ calls[t] < MaxCalls
    /\ calls' = [calls EXCEPT ![t] = calls[t] + 1]
    /\ apc' = [apc EXCEPT ![t] = "L47"]
    /\ inToken' = [inToken EXCEPT ![t] = FALSE]
    /\ nreq' = [nreq EXCEPT ![t] = 0]
    /\ seen' = [seen EXCEPT ![t] = NoSeen]
    /\ exc' = [exc EXCEPT ![t] = ""]
    /\ ret' = [ret EXCEPT ![t] = NoToken]
    /\ UNCHANGED <<access, expires, refreshTok, lockOwner, now, resp, valid,
                   grants, wexp, expiryOf>>

\* the condition of line 42
NeedsRefresh(t_now, t_expires, tok) == t_now > t_expires \/ tok = NoToken

\* line 42
TokenCheckExpiry(t) ==
    /\ apc[t] = "L42"
    /\ seen' = [seen EXCEPT ![t] = [now |-> now, expires |-> expires,
                                    access |-> access]]
    /\ apc' = [apc EXCEPT ![t] =
                 IF NeedsRefresh(now, expires, access) THEN "L47" ELSE "L44"]
    /\ UNCHANGED <<access, expires, refreshTok, lockOwner, now, inToken, resp,
                   valid, grants, calls, nreq, wexp, ret, exc,
                   expiryOf>>

\* line 44
TokenReturn(t) ==
    /\ apc[t] = "L44"
    /\ ret' = [ret EXCEPT ![t] = access]
    /\ apc' = [apc EXCEPT ![t] = "returned"]
    /\ UNCHANGED <<access, expires, refreshTok, lockOwner, now, inToken, resp,
                   valid, grants, calls, nreq, seen, wexp, exc,
                   expiryOf>>

\* lines 47-48
RefreshCheckNone(t) ==
    /\ apc[t] = "L47"
    /\ IF refreshTok = NoToken
       THEN Raise(t, "NoTokenError")
       ELSE /\ apc' = [apc EXCEPT ![t] = "L49"]
            /\ UNCHANGED exc
    /\ UNCHANGED <<access, expires, refreshTok, lockOwner, now, inToken, resp,
                   valid, grants, calls, nreq, seen, wexp, ret,
                   expiryOf>>

\* lines 49-59: the request to the token endpoint, the authority's answer and
\* the check of the answer
RefreshPost(t) ==
    /\ apc[t] = "L49"
    /\ nreq' = [nreq EXCEPT ![t] = nreq[t] + 1]
    /\ \/ /\ refreshTok \in valid
          /\ grants < MaxGrants
          /\ \E life \in 1..MaxLifetime :
                resp' = [resp EXCEPT ![t] = Grant(grants + 1, life)]
          /\ grants' = grants + 1
          /\ valid' = valid \cup {RefreshOf(grants + 1)}
          /\ apc' = [apc EXCEPT ![t] = "L60"]
          /\ UNCHANGED exc
       \/ /\ resp' = [resp EXCEPT ![t] = ErrorResp]
          /\ Raise(t, "APIError")
          /\ UNCHANGED <<grants, valid>>
    /\ UNCHANGED <<access, expires, refreshTok, lockOwner, now, inToken,
                   calls, seen, wexp, ret, expiryOf>>

\* threading.RLock: free, or held by the thread itself
LockIgnored(t) == TRUE

LockFree(t) == lockOwner \in {0, t}

\* line 60
RefreshLock(t) ==
    /\ apc[t] = "L60"
    /\ LockFree(t)
    /\ lockOwner' = t
    /\ apc' = [apc EXCEPT ![t] = "L61"]
    /\ UNCHANGED <<access, expires, refreshTok, now, inToken, resp, valid,
                   grants, calls, nreq, seen, wexp, ret, exc,
                   expiryOf>>

\* line 61
RefreshSetExpires(t) ==
    /\ apc[t] = "L61"
    /\ expires' = now + resp[t].expires_in
    /\ wexp' = [wexp EXCEPT ![t] = now + resp[t].expires_in]
    /\ apc' = [apc EXCEPT ![t] = "L62"]
    /\ UNCHANGED <<access, refreshTok, lockOwner, now, inToken, resp, valid,
                   grants, calls, nreq, seen, ret, exc, expiryOf>>

\* line 62
RefreshSetRefresh(t) ==
    /\ apc[t] = "L62"
    /\ refreshTok' = resp[t].refresh_token
    /\ apc' = [apc EXCEPT ![t] = "L63"]
    /\ UNCHANGED <<access, expires, lockOwner, now, inToken, resp, valid,
                   grants, calls, nreq, seen, wexp, ret, exc,
                   expiryOf>>

\* line 63 and the end of the with block
RefreshSetAccess(t) ==
    /\ apc[t] = "L63"
    /\ access' = resp[t].access_token
    /\ expiryOf' = [expiryOf EXCEPT ![resp[t].access_token] = wexp[t]]
    /\ lockOwner' = 0
    /\ apc' = [apc EXCEPT ![t] = "L64"]
    /\ UNCHANGED <<expires, refreshTok, now, inToken, resp, valid, grants, calls, nreq, seen, wexp, ret, exc>>

\* line 64: back in access_token when it made the call
RefreshReturn(t) ==
    /\ apc[t] = "L64"
    /\ IF inToken[t]
       THEN /\ apc' = [apc EXCEPT ![t] = "L44"]
            /\ UNCHANGED ret
       ELSE /\ apc' = [apc EXCEPT ![t] = "returned"]
            /\ ret' = [ret EXCEPT ![t] = access]
    /\ UNCHANGED <<access, expires, refreshTok, lockOwner, now, inToken, resp,
                   valid, grants, calls, nreq, seen, wexp, exc,
                   expiryOf>>

\* time passes
Tick ==
    /\ now < MaxTime
    /\ now' = now + 1
    /\ UNCHANGED <<access, expires, refreshTok, lockOwner, apc, inToken, resp,
                   valid, grants, calls, nreq, seen, wexp, ret, exc,
                   expiryOf>>

AuthNext ==
    \/ \E t \in Threads : CallToken(t) /\ UNCHANGED nonAuth
    \/ \E t \in Threads : CallRefresh(t) /\ UNCHANGED nonAuth
    \/ \E t \in Threads : TokenCheckExpiry(t) /\ UNCHANGED nonAuth
    \/ \E t \in Threads : TokenReturn(t) /\ UNCHANGED nonAuth
    \/ \E t \in Threads : RefreshCheckNone(t) /\ UNCHANGED nonAuth
    \/ \E t \in Threads : RefreshPost(t) /\ UNCHANGED nonAuth
    \/ \E t \in Threads : RefreshLock(t) /\ UNCHANGED nonAuth
    \/ \E t \in Threads : RefreshSetExpires(t) /\ UNCHANGED nonAuth
    \/ \E t \in Threads : RefreshSetRefresh(t) /\ UNCHANGED nonAuth
    \/ \E t \in Threads : RefreshSetAccess(t) /\ UNCHANGED nonAuth
    \/ \E t \in Threads : RefreshReturn(t) /\ UNCHANGED nonAuth
    \/ Tick /\ UNCHANGED nonAuth

-----------------------------------------------------------------------------
(* GraphAuth.authenticate: the device-code grant *)

\* The errors the token endpoint answers a poll request with.
Pending == "authorization_pending"
Declined == "authorization_declined"
ExpiredCode == "expired_token"
BadCode == "bad_verification_code"
PollErrors == {Pending, Declined, ExpiredCode, BadCode}
Granted == "granted"

NoData == [access_token |-> NoToken, expires_in |-> 0,
           refresh_token |-> NoToken, has_refresh |-> FALSE]
\* A grant of the device flow; refresh_token is part of it when the scopes
\* ask for offline access.
DeviceGrant(life, withRefresh) ==
    [access_token |-> AccessOf(1), expires_in |-> life,
     refresh_token |-> IF withRefresh THEN RefreshOf(1) ELSE NoToken,
     has_refresh |-> withRefresh]

DevIdle ==
    /\ dpc = "idle"
    /\ dexp = 0
    /\ interval = 0
    /\ data = NoData
    /\ answers = <<>>
    /\ pollTimes = <<>>
    /\ slept = 0
    /\ dexc = ""
    /\ dret = NoToken
    /\ pre = <<NoToken, 0, NoToken>>

\* GraphAuth.__init__ before an interactive authentication
DeviceInit ==
    /\ now = 1
    /\ access \in {NoToken, AccessOf(0)}
    /\ refreshTok \in {NoToken, GoodRefresh}
    /\ expires \in {0, 1}
    /\ lockOwner = 0
    /\ apc = [t \in Threads |-> "idle"]
    /\ inToken = [t \in Threads |-> FALSE]
    /\ resp = [t \in Threads |-> ErrorResp]
    /\ valid = {GoodRefresh}
    /\ grants = 0
    /\ calls = [t \in Threads |-> 0]
    /\ nreq = [t \in Threads |-> 0]
    /\ seen = [t \in Threads |-> NoSeen]
    /\ wexp = [t \in Threads |-> 0]
    /\ ret = [t \in Threads |-> NoToken]
    /\ exc = [t \in Threads |-> ""]
    /\ expiryOf = [k \in 0..(MaxGrants + 1) |-> expires]
    /\ DevIdle

\* lines 74-87: the device code request
DeviceStart ==
    /\ dpc = "idle"
    /\ pre' = <<access, expires, refreshTok>>
    /\ \/ /\ dpc' = "raised"
          /\ dexc' = "APIError"
          /\ UNCHANGED <<dexp, interval>>
       \/ \E life \in 1..MaxDeviceLife, iv \in 1..MaxInterval :
             /\ dexp' = now + life
             /\ interval' = iv
             /\ dpc' = "L88"
             /\ UNCHANGED dexc
    /\ UNCHANGED <<data, answers, pollTimes, slept, dret>>
    /\ UNCHANGED <<access, expires, refreshTok, lockOwner, now, authCallVars>>

\* line 88: the condition of the polling loop
PollWhileCodeValidInclusive(t_now, t_expires) == t_now <= t_expires

PollWhileCodeValid(t_now, t_expires) == t_now < t_expires

\* lines 100-105: what the loop does with an answer that carries an error
AfterPollError(e) ==
    IF e = "authorization_pending" THEN "sleep"
    ELSE IF e = "authorization_pending" THEN "AuthorizationCanceledError"
    ELSE "APIError"

\* lines 88-105: the loop condition, one poll request and its answer
DevicePoll ==
    /\ dpc = "L88"
    /\ IF PollWhileCodeValid(now, dexp)
       THEN /\ pollTimes' = Append(pollTimes, now)
            /\ \/ \E life \in 1..MaxLifetime, wr \in BOOLEAN :
                     /\ answers' = Append(answers, Granted)
                     /\ data' = DeviceGrant(life, wr)
                     /\ dpc' = "L106"
                     /\ UNCHANGED dexc
               \/ \E e \in PollErrors :
                     /\ answers' = Append(answers, e)
                     /\ UNCHANGED data
                     /\ IF AfterPollError(e) = "sleep"
                        THEN dpc' = "L101" /\ UNCHANGED dexc
                        ELSE dpc' = "raised" /\ dexc' = AfterPollError(e)
       ELSE /\ dpc' = "L106"
            /\ UNCHANGED <<pollTimes, answers, data, dexc>>
    /\ UNCHANGED <<dexp, interval, slept, dret, pre>>
    /\ UNCHANGED <<access, expires, refreshTok, lockOwner, now, authCallVars>>

\* lines 101-102: time.sleep(interval)
DeviceSleep ==
    /\ dpc = "L101"
    /\ now' = now + interval
    /\ slept' = slept + interval
    /\ dpc' = "L88"
    /\ UNCHANGED <<dexp, interval, data, answers, pollTimes, dexc, dret, pre>>
    /\ UNCHANGED <<access, expires, refreshTok, lockOwner, authCallVars>>

\* lines 106-107
DeviceAfterLoop ==
    /\ dpc = "L106"
    /\ IF data = NoData
       THEN dpc' = "raised" /\ dexc' = "AuthorizationTimeoutError"
       ELSE dpc' = "L108" /\ UNCHANGED dexc
    /\ UNCHANGED <<dexp, interval, data, answers, pollTimes, slept, dret, pre>>
    /\ UNCHANGED <<access, expires, refreshTok, lockOwner, now, authCallVars>>

\* line 111: data.get('refresh_token', self.refresh_token)
GrantedRefreshIgnored(d, old) == old

GrantedRefresh(d, old) == IF d.has_refresh THEN d.refresh_token ELSE old

\* lines 108-112: the grant is stored under the lock
DeviceStore ==
    /\ dpc = "L108"
    /\ lockOwner = 0
    /\ expires' = now + data.expires_in
    /\ access' = data.access_token
    /\ refreshTok' = GrantedRefresh(data, refreshTok)
    /\ dret' = data.access_token
    /\ dpc' = "returned"
    /\ UNCHANGED <<dexp, interval, data, answers, pollTimes, slept, dexc, pre>>
    /\ UNCHANGED <<lockOwner, now, authCallVars>>

\* time passes while authenticate runs
DeviceTick ==
    /\ dpc \in {"L88", "L101", "L106", "L108"}
    /\ now <= dexp
    /\ now' = now + 1
    /\ UNCHANGED devVars
    /\ UNCHANGED <<access, expires, refreshTok, lockOwner, authCallVars>>

DeviceRun ==
    \/ DeviceStart /\ UNCHANGED nonDevice
    \/ DevicePoll /\ UNCHANGED nonDevice
    \/ DeviceSleep /\ UNCHANGED nonDevice
    \/ DeviceAfterLoop /\ UNCHANGED nonDevice
    \/ DeviceStore /\ UNCHANGED nonDevice

DeviceNext ==
    \/ DeviceRun
    \/ DeviceTick /\ UNCHANGED nonDevice

-----------------------------------------------------------------------------
(* DBDict: the mapping kept in a database table *)

DbKeys == {"a", "b"}
DbValues == {1, 2}

\* pickle.dumps and pickle.loads: keys and values are stored as bytes
Dumps(x) == <<"pickle", x>>
Loads(b) == b[2]

NoRow == <<>>
NoValue == 0
NoEntry == [val |-> NoValue, thread |-> 0]

\* SELECT value FROM table WHERE key=? and fetchone()
SelectValue(rows, pk) ==
    LET idx == {i \in 1..Len(rows) : rows[i].key = pk}
    IN  IF idx = {} THEN NoRow
        ELSE <<rows[CHOOSE i \in idx : \A j \in idx : i <= j].value>>

\* UPDATE table SET value=? WHERE key=?
ExecUpdate(rows, pv, pk) ==
    [i \in 1..Len(rows) |->
        IF rows[i].key = pk THEN [key |-> pk, value |-> pv] ELSE rows[i]]

\* INSERT INTO table(key, value) VALUES(?, ?); key is UNIQUE
ExecInsert(rows, pk, pv) ==
    IF \E i \in 1..Len(rows) : rows[i].key = pk
    THEN [rows |-> rows, exc |-> "IntegrityError"]
    ELSE [rows |-> Append(rows, [key |-> pk, value |-> pv]), exc |-> ""]

\* DELETE FROM table WHERE key=?
RECURSIVE ExecDelete(_, _)
ExecDelete(rows, pk) ==
    IF rows = <<>> THEN <<>>
    ELSE IF Head(rows).key = pk THEN ExecDelete(Tail(rows), pk)
    ELSE <<Head(rows)>> \o ExecDelete(Tail(rows), pk)

\* con.commit(): the rows the connection wrote become the table
CommitDropped(committed, written) == committed

Commit(committed, written) == written

\* sqlite3's Cursor.rowcount after a SELECT
SelectRowCount(rows) == 0 - 1

Max(a, b) == IF a > b THEN a ELSE b

\* DBDict.__getitem__
GetItem(rows, k) ==
    LET row == SelectValue(rows, Dumps(k))
    IN  IF row = NoRow THEN [exc |-> "KeyError", val |-> NoValue]
        ELSE [exc |-> "", val |-> Loads(row[1])]

\* Mapping.__contains__: the key is there unless __getitem__ raises KeyError
Contains(rows, k) == GetItem(rows, k).exc # "KeyError"

\* DBDict.__setitem__
SetItem(rows, k, v) ==
    LET written == IF Contains(rows, k)
                   THEN [rows |-> ExecUpdate(rows, Dumps(v), Dumps(k)), exc |-> ""]
                   ELSE ExecInsert(rows, Dumps(k), Dumps(v))
    IN  IF written.exc # "" THEN [rows |-> rows, exc |-> written.exc]
        ELSE [rows |-> Commit(rows, written.rows), exc |-> ""]

\* DBDict.__delitem__
DelItemUnchecked(rows, k) ==
    [rows |-> Commit(rows, ExecDelete(rows, Dumps(k))), exc |-> ""]

DelItem(rows, k) ==
    IF ~Contains(rows, k) THEN [rows |-> rows, exc |-> "KeyError"]
    ELSE [rows |-> Commit(rows, ExecDelete(rows, Dumps(k))), exc |-> ""]

\* DBDict.__iter__
IterKeys(rows) == [i \in 1..Len(rows) |-> Loads(rows[i].key)]

\* DBDict.__len__
DbLen(rows) == Max(SelectRowCount(rows), 0)

\* The mappings a DBDict is compared with: a dict, or another DBDict.
PlainDicts == UNION {[S -> DbValues] : S \in SUBSET DbKeys}
Mappings == {[kind |-> kd, map |-> f] : kd \in {"dict", "DBDict"}, f \in PlainDicts}
RowsOf(f) ==
    LET RECURSIVE Build(_)
        Build(S) == IF S = {} THEN <<>>
                    ELSE LET k == CHOOSE x \in S : TRUE
                         IN  <<[key |-> Dumps(k), value |-> Dumps(f[k])]>>
                                \o Build(S \ {k})
    IN  Build(DOMAIN f)
\* len(d)
LenOf(d) == IF d.kind = "dict" THEN Cardinality(DOMAIN d.map)
            ELSE DbLen(RowsOf(d.map))

\* DBDict.__eq__
DbEq(rows, d) ==
    IF LenOf(d) # DbLen(rows) THEN FALSE
    ELSE \A i \in 1..Len(rows) :
            LET k == IterKeys(rows)[i]
            IN  /\ k \in DOMAIN d.map
                /\ d.map[k] = GetItem(rows, k).val

\* bool is a subclass of int: True is 1 and False is 0
PyBool(b) == IF b THEN 1 ELSE 0

NoOther == [kind |-> "none", map |-> <<>>]
Outcome(o, t, k, v, e, d) ==
    [op |-> o, thread |-> t, key |-> k, val |-> v, exc |-> e, other |-> d]

\* DBDict.__init__: the creating thread opens a connection and creates the table
DbInit ==
    /\ table = <<>>
    /\ connections = {1}
    /\ dres = Outcome("init", 1, "", NoValue, "", NoOther)
    /\ lastSet = [k \in DbKeys |-> NoEntry]

\* DBDict.connection: a thread's first use opens its connection
Connect(t) == connections' = connections \cup {t}

\* d[k] = v
DbSet(t, k, v) ==
    /\ Connect(t)
    /\ LET r == SetItem(table, k, v)
       IN  /\ table' = r.rows
           /\ dres' = Outcome("set", t, k, v, r.exc, NoOther)
           /\ lastSet' = IF r.exc = ""
                         THEN [lastSet EXCEPT ![k] = [val |-> v, thread |-> t]]
                         ELSE lastSet

\* d[k]
DbGet(t, k) ==
    /\ Connect(t)
    /\ LET r == GetItem(table, k)
       IN  dres' = Outcome("get", t, k, r.val, r.exc, NoOther)
    /\ UNCHANGED <<table, lastSet>>

\* del d[k]
DbDel(t, k) ==
    /\ Connect(t)
    /\ LET r == DelItem(table, k)
       IN  /\ table' = r.rows
           /\ dres' = Outcome("del", t, k, NoValue, r.exc, NoOther)
           /\ lastSet' = IF r.exc = "" THEN [lastSet EXCEPT ![k] = NoEntry]
                         ELSE lastSet

\* len(d)
DbLenCall(t) ==
    /\ Connect(t)
    /\ dres' = Outcome("len", t, "", DbLen(table), "", NoOther)
    /\ UNCHANGED <<table, lastSet>>

\* d == other
DbEqCall(t, d) ==
    /\ Connect(t)
    /\ dres' = Outcome("eq", t, "", PyBool(DbEq(table, d)), "", d)
    /\ UNCHANGED <<table, lastSet>>

DbNext ==
    \/ \E t \in Threads, k \in DbKeys, v \in DbValues : DbSet(t, k, v) /\ UNCHANGED nonDb
    \/ \E t \in Threads, k \in DbKeys : DbGet(t, k) /\ UNCHANGED nonDb
    \/ \E t \in Threads, k \in DbKeys : DbDel(t, k) /\ UNCHANGED nonDb
    \/ \E t \in Threads : DbLenCall(t) /\ UNCHANGED nonDb
    \/ \E t \in Threads, d \in Mappings : DbEqCall(t, d) /\ UNCHANGED nonDb

-----------------------------------------------------------------------------
(* Queries of the index: GraphDrive.get_item_by_path, GraphDriveItem *)

\* Optional arguments: None, or a value.
None == <<>>
Some(n) == <<n>>

\* The paths the queries are made with: item paths, and strings that are keys
\* of the cursor, children and content-tag namespaces.
QueryPaths ==
    {Slash, Slash \o Docs, Slash \o Report, DeltaKey, ChildrenKey(Slash),
     ChildrenKey(Slash \o Docs), TagKey(Slash \o Docs)}
Offsets == {None, Some(0), Some(1), Some(10)}
Sizes == {None, Some(0 - 1), Some(0), Some(1), Some(5)}

\* The content of a remote file: sixteen bytes.
FileBytes == [i \in 1..16 |-> i - 1]
NoBytes == <<>>
OpenEnd == 0 - 1
NoRange == [lo |-> 0 - 1, hi |-> 0 - 1]

\* The bytes a range header selects.
Slice(bytes, rg) ==
    IF rg = NoRange THEN bytes
    ELSE SubSeq(bytes, rg.lo + 1,
                IF rg.hi = OpenEnd THEN Len(bytes) ELSE Min(rg.hi + 1, Len(bytes)))

\* The server's answers to a content request: status, body, and for a
\* redirect the body of the response to the redirected request.
Answers(rg) ==
    {[status |-> 200, body |-> FileBytes, next |-> FALSE, nextBody |-> NoBytes],
     [status |-> 206, body |-> Slice(FileBytes, rg), next |-> FALSE,
      nextBody |-> NoBytes],
     [status |-> 302, body |-> NoBytes, next |-> TRUE,
      nextBody |-> Slice(FileBytes, rg)],
     [status |-> 302, body |-> NoBytes, next |-> TRUE, nextBody |-> FileBytes],
     [status |-> 304, body |-> NoBytes, next |-> FALSE, nextBody |-> NoBytes],
     [status |-> 404, body |-> NoBytes, next |-> FALSE, nextBody |-> NoBytes]}
NoAnswer == [status |-> 0, body |-> NoBytes, next |-> FALSE, nextBody |-> NoBytes]

\* Item entries are the values of the keys that are paths; the cursor is a
\* link and a children entry a list of names, neither holds a facet.
IsItemKey(k) == k # <<>> /\ Head(k) = "/"
\* 'folder' in self.data
HasFolderFacet(c, path) == IsItemKey(path) /\ c[path].folder

Result(kind, val) == [kind |-> kind, val |-> val]
Query(o, path, offset, size, res, ranges, answer) ==
    [op |-> o, path |-> path, offset |-> offset, size |-> size,
     kind |-> res.kind, val |-> res.val, ranges |-> ranges, answer |-> answer]
NoQuery == Query("none", <<>>, None, None, Result("none", <<>>), <<>>, NoAnswer)

\* GraphDrive.get_item_by_path: the index after it and what it returns
GetItemByPath(c, path) ==
    [cache |-> c,
     res |-> IF Has(c, path) THEN Result("item", path) ELSE Result("none", <<>>)]

\* GraphDriveItem.children
ChildrenSetDefault(c, path) ==
    IF ~Has(c, path) THEN [cache |-> c, res |-> Result("KeyError", <<>>)]
    ELSE IF ~HasFolderFacet(c, path) THEN [cache |-> c, res |-> Result("none", <<>>)]
    ELSE [cache |-> Put(c, ChildrenKey(path), Get(c, ChildrenKey(path), <<>>)),
          res |-> Result("list", Get(c, ChildrenKey(path), <<>>))]

Children(c, path) ==
    IF ~Has(c, path) THEN [cache |-> c, res |-> Result("KeyError", <<>>)]
    ELSE IF ~HasFolderFacet(c, path) THEN [cache |-> c, res |-> Result("none", <<>>)]
    ELSE [cache |-> c, res |-> Result("list", Get(c, ChildrenKey(path), <<>>))]

\* lines 286-291: the last byte of the range, '' when size is None
RangeEndExclusive(offset, size) == IF size # None THEN offset + size[1] ELSE OpenEnd

RangeEnd(offset, size) == IF size # None THEN offset + size[1] - 1 ELSE OpenEnd

\* lines 286-291: the range header of the request
RangeHeader(offset, size) ==
    IF offset # None \/ size # None
    THEN LET off == IF offset = None THEN 0 ELSE offset[1]
         IN  [lo |-> off, hi |-> RangeEnd(off, size)]
    ELSE NoRange

\* GraphDriveItem.get_contents before the request: what it returns at once,
\* or "request"
ContentsEarly(c, path, size) ==
    IF ~Has(c, path) THEN Result("KeyError", <<>>)
    ELSE IF HasFolderFacet(c, path) THEN Result("none", <<>>)
    ELSE IF size # None /\ size[1] <= 0 THEN Result("bytes", NoBytes)
    ELSE Result("request", <<>>)

\* lines 297-303: what get_contents makes of the response
ContentsOf(ans) ==
    IF ans.status = 304 THEN Result("bytes", NoBytes)
    ELSE IF ans.status >= 400 THEN Result("none", <<>>)
    ELSE IF ans.next THEN Result("bytes", ans.nextBody)
    ELSE Result("bytes", ans.body)

QIdle == qry = NoQuery

RECURSIVE ApplyAll(_, _)
\* lines 165-172: the loop over the items of a page, up to the first exception
ApplyAll(c, its) ==
    IF its = <<>> THEN c
    ELSE IF Head(its).deleted
    THEN LET r == Deleted(c, Head(its), FALSE)
         IN  IF r.err # "" THEN r.cache ELSE ApplyAll(r.cache, Tail(its))
    ELSE ApplyAll(Upsert(c, Head(its)), Tail(its))

\* The drive after the poll thread has applied the first page of the feed and
\* sleeps: the state the queries are made in.
IndexedInit ==
    \E p \in PagesFrom([i \in Ids |-> NoItem], RootDelta, MaxChanges) :
        /\ cache = ApplyAll(Put(Construct(<<>>), DeltaKey, RootDelta + 1), p.items)
        /\ pc = "sleep"
        /\ nextlink = NoLink
        /\ items = <<>>
        /\ err = ""
        /\ feed = <<[items |-> p.items, terminal |-> TRUE]>>
        /\ remote = p.rem
        /\ restarts = 0
        /\ bootCursor = NoLink
        /\ polled = TRUE
        /\ curPage = RootDelta
        /\ done = {RootDelta}
        /\ ckpt = {}

QueryItemByPath(path) ==
    LET r == GetItemByPath(cache, path)
    IN  /\ cache' = r.cache
        /\ qry' = Query("get_item_by_path", path, None, None, r.res, <<>>, NoAnswer)

QueryChildren(path) ==
    LET r == Children(cache, path)
    IN  /\ cache' = r.cache
        /\ qry' = Query("children", path, None, None, r.res, <<>>, NoAnswer)

QueryContents(path, offset, size) ==
    LET early == ContentsEarly(cache, path, size)
        rg == RangeHeader(offset, size)
    IN  /\ UNCHANGED cache
        /\ IF early.kind # "request"
           THEN qry' = Query("get_contents", path, offset, size, early, <<>>, NoAnswer)
           ELSE \E ans \in Answers(rg) :
                   qry' = Query("get_contents", path, offset, size, ContentsOf(ans),
                              IF ans.status # 304 /\ ans.status < 400 /\ ans.next
                              THEN <<rg, rg>> ELSE <<rg>>,
                              ans)

QueryNext ==
    \/ \E path \in QueryPaths : QueryItemByPath(path) /\ UNCHANGED nonQuery
    \/ \E path \in QueryPaths : QueryChildren(path) /\ UNCHANGED nonQuery
    \/ \E path \in QueryPaths, offset \in Offsets, size \in Sizes :
          QueryContents(path, offset, size) /\ UNCHANGED nonQuery

-----------------------------------------------------------------------------
(* The registry of drives: GraphDrives.get_drive and get_me_drive *)

MaxDrives == 2
DriveIds == 1..MaxDrives

\* The JSON bodies the Graph API answers a drive lookup with.
ErrorPayload == [error |-> "itemNotFound"]
DriveResource(i) == [id |-> i, driveType |-> "personal"]
MeAnswers == {ErrorPayload} \cup {DriveResource(i) : i \in DriveIds}
DriveAnswers(i) == {ErrorPayload, DriveResource(i)}

\* An engine: the drive it is bound to and whether its poll thread runs.
Engine(i, started) == [id |-> i, thread |-> started]
NoEngine == Engine(0, FALSE)

\* GraphDrive.refresh: the exception it raises ("" = none)
Refresh(req) == IF "error" \in DOMAIN req THEN "APIError" ELSE ""

\* GraphDrive.__init__: refresh() runs before the thread is created
NewGraphDrive(id, req, start_thread) ==
    IF Refresh(req) # ""
    THEN [exc |-> Refresh(req), engine |-> NoEngine]
    ELSE [exc |-> "", engine |-> Engine(id, start_thread)]

GetDrive(drive_id, req, start_thread) ==
    NewGraphDrive(drive_id, req, start_thread)

\* get_me_drive: r['id'] of the /me/drive response, then get_drive
GetMeDrive(r, req, start_thread) ==
    IF "id" \notin DOMAIN r
    THEN [exc |-> "KeyError", engine |-> NoEngine]
    ELSE GetDrive(r.id, req, start_thread)

Lookup(o, id, start_thread, failed, out) ==
    [op |-> o, id |-> id, start |-> start_thread, lookupError |-> failed,
     exc |-> out.exc, engine |-> out.engine]
NoLookup == Lookup("none", 0, FALSE, FALSE, [exc |-> "", engine |-> NoEngine])

RegIdle ==
    /\ reg = NoLookup
    /\ engines = {}

RegistryReturns(out) ==
    engines' = IF out.exc = "" THEN engines \cup {out.engine} ELSE engines

CallGetDrive(drive_id, req, start_thread) ==
    LET out == GetDrive(drive_id, req, start_thread)
    IN  /\ reg' = Lookup("get_drive", drive_id, start_thread,
                         "error" \in DOMAIN req, out)
        /\ RegistryReturns(out)

\* the /drives/{id} request is sent only when /me/drive gave an id
CallGetMeDrive(r, start_thread) ==
    \E req \in (IF "id" \in DOMAIN r THEN DriveAnswers(r.id) ELSE {ErrorPayload}) :
        LET out == GetMeDrive(r, req, start_thread)
        IN  /\ reg' = Lookup("get_me_drive",
                             IF "id" \in DOMAIN r THEN r.id ELSE 0,
                             start_thread,
                             "error" \in DOMAIN r \/ "error" \in DOMAIN req, out)
            /\ RegistryReturns(out)

RegistryNext ==
    \/ \E i \in DriveIds, st \in BOOLEAN :
          \E req \in DriveAnswers(i) : CallGetDrive(i, req, st) /\ UNCHANGED nonRegistry
    \/ \E r \in MeAnswers, st \in BOOLEAN :
          CallGetMeDrive(r, st) /\ UNCHANGED nonRegistry

-----------------------------------------------------------------------------
(* Two engines constructed for the same drive share its cache; each updates *)
(* the children entry of a folder from its own poll thread.                 *)

Engines == {1, 2}

\* line 124: every GraphDrive creates its own RLock
LockOf(e) == e

\* Each poll thread makes at most MaxUpdates updates.
MaxUpdates == 2

\* An update of the list, and its number among those of its engine.
KidsUpdate(kind, name, n) == [kind |-> kind, name |-> name, n |-> n]
NoUpdate == KidsUpdate("none", <<>>, 0)

\* lines 188 and 197: parchildren.remove(name), parchildren.append(name)
Modified(l, u) ==
    IF u.kind = "add" THEN Append(l, u.name) ELSE ListRemove(l, u.name)

LockIdle ==
    /\ kids = <<>>
    /\ klock = [l \in Engines |-> 0]
    /\ kpc = [e \in Engines |-> "idle"]
    /\ klocal = [e \in Engines |-> <<>>]
    /\ kop = [e \in Engines |-> NoUpdate]
    /\ kseen = <<>>

\* lines 170-171 and 195, lines 178 and 186: the poll thread of e has an
\* added item whose path is not in the cache, or a deleted item whose path
\* is, and enters `with self._children_lock`
KidsAcquire(e, kind, name) ==
    /\ kpc[e] = "idle"
    /\ kop[e].n < MaxUpdates
    /\ klock[LockOf(e)] = 0
    /\ IF kind = "add" THEN name \notin Elems(kids) ELSE name \in Elems(kids)
    /\ klock' = [klock EXCEPT ![LockOf(e)] = e]
    /\ kpc' = [kpc EXCEPT ![e] = "locked"]
    /\ kop' = [kop EXCEPT ![e] = KidsUpdate(kind, name, kop[e].n + 1)]
    /\ UNCHANGED <<kids, klocal, kseen>>

\* lines 187 and 196
KidsLoad(e) ==
    /\ kpc[e] = "locked"
    /\ klocal' = [klocal EXCEPT ![e] = kids]
    /\ kpc' = [kpc EXCEPT ![e] = "loaded"]
    /\ UNCHANGED <<kids, klock, kop, kseen>>

\* lines 188-189 and 197-198, and the end of the with block; list.remove
\* raises ValueError when the name is not in the list
KidsStore(e) ==
    /\ kpc[e] = "loaded"
    /\ IF kop[e].kind = "remove" /\ kop[e].name \notin Elems(klocal[e])
       THEN /\ kpc' = [kpc EXCEPT ![e] = "dead"]
            /\ UNCHANGED kids
       ELSE /\ kids' = Modified(klocal[e], kop[e])
            /\ kpc' = [kpc EXCEPT ![e] = "idle"]
    /\ klock' = [klock EXCEPT ![LockOf(e)] = 0]
    /\ UNCHANGED <<klocal, kop, kseen>>

\* lines 244-245: GraphDriveItem.children of an item of engine e
KidsRead(e) ==
    /\ klock[LockOf(e)] = 0
    /\ kseen' = kids
    /\ UNCHANGED <<kids, klock, kpc, klocal, kop>>

LockNext ==
    \/ \E e \in Engines, kind \in {"add", "remove"}, name \in Names :
          KidsAcquire(e, kind, name) /\ UNCHANGED nonLock
    \/ \E e \in Engines : KidsLoad(e) /\ UNCHANGED nonLock
    \/ \E e \in Engines : KidsStore(e) /\ UNCHANGED nonLock
    \/ \E e \in Engines : KidsRead(e) /\ UNCHANGED nonLock

-----------------------------------------------------------------------------
(* The filesystem handlers: OnedriveFS.getattr, open, readdir, read.  They  *)
(* run on the FUSE thread while the poll thread applies pages.              *)

FsOps == {"getattr", "open", "readdir", "read"}
FsPaths == {Slash, Slash \o Docs, Slash \o Report}

\* A handler call: where it is, the children still to list, its result
FsCall(o, path, at, todo, res) ==
    [op |-> o, path |-> path, at |-> at, todo |-> todo, res |-> res]
NoFsCall == FsCall("none", <<>>, "idle", <<>>, "")

FsIdle == fsq = NoFsCall

\* fs.py line 131
ChildPath(dir, name) ==
    (IF dir = Slash THEN <<>> ELSE dir) \o Slash \o name

\* lines 91, 112, 123, 143: get_item_by_path(path) and the test for None
FsLookup(o, path) ==
    /\ fsq.at \in {"idle", "done"}
    /\ fsq' = IF GetItemByPath(cache, path).res.kind = "none"
              THEN FsCall(o, path, "done", <<>>, "ENOENT")
              ELSE FsCall(o, path, "facet", <<>>, "")

\* lines 95, 115, 124 and fsapi.py line 280: the first read of the item's
\* data, by is_folder or is_file (GraphDriveItem.data is self._cache[path])
FsFacet ==
    /\ fsq.at = "facet"
    /\ fsq' =
         IF ~Has(cache, fsq.path) THEN [fsq EXCEPT !.at = "done", !.res = "KeyError"]
         ELSE IF fsq.op = "getattr"
         THEN [fsq EXCEPT !.at = IF cache[fsq.path].folder THEN "mtime" ELSE "size"]
         ELSE IF fsq.op = "open"
         THEN [fsq EXCEPT !.at = "done",
                          !.res = IF cache[fsq.path].folder THEN "ENOENT" ELSE "ok"]
         ELSE IF fsq.op = "readdir"
         THEN IF cache[fsq.path].folder
              THEN [fsq EXCEPT !.at = "children"]
              ELSE [fsq EXCEPT !.at = "done", !.res = "ENOENT"]
         ELSE [fsq EXCEPT !.at = "done",
                          !.res = IF cache[fsq.path].folder THEN "none" ELSE "bytes"]

\* fs.py lines 100 and 104-108: getattr reads file.data['size'] and
\* file.data['lastModifiedDateTime']
FsStat ==
    /\ fsq.at \in {"size", "mtime"}
    /\ fsq' =
         IF ~Has(cache, fsq.path) THEN [fsq EXCEPT !.at = "done", !.res = "KeyError"]
         ELSE IF fsq.at = "size" THEN [fsq EXCEPT !.at = "mtime"]
         ELSE [fsq EXCEPT !.at = "done", !.res = "stat"]

\* fs.py line 130: folder.children
FsChildren ==
    /\ fsq.at = "children"
    /\ LET r == Children(cache, fsq.path).res
       IN  fsq' =
             IF r.kind = "KeyError" THEN [fsq EXCEPT !.at = "done", !.res = "KeyError"]
             ELSE IF r.kind = "none" THEN [fsq EXCEPT !.at = "done", !.res = "TypeError"]
             ELSE IF r.val = <<>> THEN [fsq EXCEPT !.at = "done", !.res = "entries"]
             ELSE [fsq EXCEPT !.at = "child", !.todo = r.val]

ChildDone(q) ==
    IF Tail(q.todo) = <<>>
    THEN [q EXCEPT !.at = "done", !.todo = <<>>, !.res = "entries"]
    ELSE [q EXCEPT !.at = "child", !.todo = Tail(q.todo)]

\* fs.py lines 131-134: the lookup of a listed child
FsChildLookup ==
    /\ fsq.at = "child"
    /\ fsq' = IF GetItemByPath(cache, ChildPath(fsq.path, Head(fsq.todo))).res.kind = "none"
              THEN ChildDone(fsq)
              ELSE [fsq EXCEPT !.at = "childfacet"]

\* fs.py lines 135-139: itemobj.is_folder
FsChildFacet ==
    /\ fsq.at = "childfacet"
    /\ fsq' = IF ~Has(cache, ChildPath(fsq.path, Head(fsq.todo)))
              THEN [fsq EXCEPT !.at = "done", !.todo = <<>>, !.res = "KeyError"]
              ELSE ChildDone(fsq)

\* The poll thread and the FUSE thread of one mounted drive.
FsNext ==
    \/ LoopTop /\ UNCHANGED nonSync
    \/ RequestOk /\ UNCHANGED nonSync
    \/ ApplyItem /\ UNCHANGED nonSync
    \/ EndOfPage /\ UNCHANGED nonSync
    \/ Sleep /\ UNCHANGED nonSync
    \/ \E o \in FsOps, path \in FsPaths : FsLookup(o, path) /\ UNCHANGED nonFs
    \/ FsFacet /\ UNCHANGED nonFs
    \/ FsStat /\ UNCHANGED nonFs
    \/ FsChildren /\ UNCHANGED nonFs
    \/ FsChildLookup /\ UNCHANGED nonFs
    \/ FsChildFacet /\ UNCHANGED nonFs

-----------------------------------------------------------------------------
(* DBDict.__setitem__ step by step, called by two threads.  Each thread has *)
(* its own connection; a connection that has written holds the database's   *)
(* write lock until it commits.                                             *)

SetCall(at, k, v, sawKey, e) ==
    [at |-> at, key |-> k, val |-> v, sawKey |-> sawKey, exc |-> e]
NoSetCall == SetCall("idle", "", NoValue, FALSE, "")

RaceIdle ==
    /\ setter = [t \in Threads |-> NoSetCall]
    /\ writer = 0
    /\ pending = <<>>

\* What a connection reads: its own transaction's rows if it has one open
RowsSeenBy(t) == IF writer = t THEN pending ELSE table

\* lines 117-120
SetBegin(t, k, v) ==
    /\ setter[t].at \in {"idle", "done"}
    /\ Connect(t)
    /\ setter' = [setter EXCEPT ![t] = SetCall("check", k, v, FALSE, "")]
    /\ UNCHANGED <<table, writer, pending>>

\* line 121: key in self
SetCheck(t) ==
    /\ setter[t].at = "check"
    /\ setter' = [setter EXCEPT ![t].at = "write",
                                ![t].sawKey = Contains(RowsSeenBy(t), setter[t].key)]
    /\ UNCHANGED <<table, writer, pending, connections>>

\* lines 122-130: the UPDATE or the INSERT; the statement takes the write
\* lock, and keeps it when it fails
SetWrite(t) ==
    /\ setter[t].at = "write"
    /\ writer \in {0, t}
    /\ LET rows == RowsSeenBy(t)
           w == IF setter[t].sawKey
                THEN [rows |-> ExecUpdate(rows, Dumps(setter[t].val),
                                          Dumps(setter[t].key)),
                      exc |-> ""]
                ELSE ExecInsert(rows, Dumps(setter[t].key), Dumps(setter[t].val))
       IN  /\ pending' = w.rows
           /\ setter' = [setter EXCEPT
                           ![t].at = IF w.exc = "" THEN "commit" ELSE "done",
                           ![t].exc = w.exc]
    /\ writer' = t
    /\ UNCHANGED <<table, connections>>

\* lines 122-130: another connection holds the write lock for longer than
\* the connection's timeout
SetBusy(t) ==
    /\ setter[t].at = "write"
    /\ writer \notin {0, t}
    /\ setter' = [setter EXCEPT ![t].at = "done", ![t].exc = "OperationalError"]
    /\ UNCHANGED <<table, writer, pending, connections>>

\* line 131
SetCommit(t) ==
    /\ setter[t].at = "commit"
    /\ table' = Commit(table, pending)
    /\ writer' = 0
    /\ pending' = <<>>
    /\ setter' = [setter EXCEPT ![t].at = "done"]
    /\ UNCHANGED connections

RaceNext ==
    \/ \E t \in Threads, k \in DbKeys, v \in DbValues :
          SetBegin(t, k, v) /\ UNCHANGED nonRace
    \/ \E t \in Threads : SetCheck(t) /\ UNCHANGED nonRace
    \/ \E t \in Threads : SetWrite(t) /\ UNCHANGED nonRace
    \/ \E t \in Threads : SetBusy(t) /\ UNCHANGED nonRace
    \/ \E t \in Threads : SetCommit(t) /\ UNCHANGED nonRace

-----------------------------------------------------------------------------
(* Specifications *)

\* The poll loop with every answer a request can get.
PollNext ==
    \/ SyncNext
    \/ RequestMalformed /\ UNCHANGED nonSync
    \/ RequestIdle /\ UNCHANGED nonSync

\* The components a specification leaves alone.
ExtIdle == RegIdle /\ LockIdle /\ FsIdle /\ RaceIdle
CoreIdle == SyncInit /\ AuthIdle /\ DevIdle /\ DbInit /\ QIdle

SyncSpecInit == SyncInit /\ AuthIdle /\ DevIdle /\ DbInit /\ QIdle /\ ExtIdle
SyncSpec == SyncSpecInit /\ [][SyncNext]_vars

PollSpecInit == SyncInit /\ AuthIdle /\ DevIdle /\ DbInit /\ QIdle /\ ExtIdle
PollSpec == PollSpecInit /\ [][PollNext]_vars

AuthSpecInit == AuthInit /\ SyncInit /\ DevIdle /\ DbInit /\ QIdle /\ ExtIdle
AuthSpec == AuthSpecInit /\ [][AuthNext]_vars

\* The caller of authenticate runs until the call ends.
DeviceSpecInit == DeviceInit /\ SyncInit /\ DbInit /\ QIdle /\ ExtIdle
DeviceSpec == DeviceSpecInit /\ [][DeviceNext]_vars /\ WF_vars(DeviceRun)

DbSpecInit == DbInit /\ SyncInit /\ AuthIdle /\ DevIdle /\ QIdle /\ ExtIdle
DbSpec == DbSpecInit /\ [][DbNext]_vars

QuerySpecInit == IndexedInit /\ AuthIdle /\ DevIdle /\ DbInit /\ QIdle /\ ExtIdle
QuerySpec == QuerySpecInit /\ [][QueryNext]_vars

RegistrySpecInit == CoreIdle /\ RegIdle /\ LockIdle /\ FsIdle /\ RaceIdle
RegistrySpec == RegistrySpecInit /\ [][RegistryNext]_vars

LockSpecInit == CoreIdle /\ LockIdle /\ RegIdle /\ FsIdle /\ RaceIdle
LockSpec == LockSpecInit /\ [][LockNext]_vars

FsSpecInit == CoreIdle /\ FsIdle /\ RegIdle /\ LockIdle /\ RaceIdle
FsSpec == FsSpecInit /\ [][FsNext]_vars

RaceSpecInit == CoreIdle /\ RaceIdle /\ RegIdle /\ LockIdle /\ FsIdle
RaceSpec == RaceSpecInit /\ [][RaceNext]_vars


-----------------------------------------------------------------------------
(* Properties of the sync engine *)

\* What the specification says of an item, derived without the string
\* operations of the source.
SpecParentPath(item) == SubSeq(item.ppath, Len(DrivePrefix) + 1, Len(item.ppath))
SpecPath(item) ==
    IF item.root THEN Slash ELSE SpecParentPath(item) \o Slash \o item.name
SpecParent(item) ==
    IF SpecParentPath(item) = <<>> THEN Slash ELSE SpecParentPath(item)
ChildrenOf(c, parent) == Elems(Get(c, ChildrenKey(parent), <<>>))

DocsFolder == Item(1, Docs, <<>>, TRUE, FALSE)

\* a step of the loop over the items of a page
IsApplyStep == pc = "items" /\ items # <<>> /\ restarts' = restarts

\* C1: applying a deleted entry whose path is in the item index removes
\* item[path], removes children[path] when the entry is a folder, and removes
\* the entry's name from children[parent].
C1_DeleteRemoves ==
    [][(IsApplyStep /\ Head(items).deleted /\ Has(cache, SpecPath(Head(items))))
        => LET it == Head(items)
           IN  /\ ~Has(cache', SpecPath(it))
               /\ it.folder => ~Has(cache', ChildrenKey(SpecPath(it)))
               /\ it.name \notin ChildrenOf(cache', SpecParent(it))]_vars

\* the folders of the item index
ObservedParents ==
    {k \in {j \in DOMAIN cache : Head(j) = "/"} : cache[k].folder}
LiveNamesUnder(parent) ==
    {remote[i].name : i \in {j \in Live : SpecParent(remote[j]) = parent}}

\* C2: once every page the server delivered has been applied, children[parent]
\* is exactly the set of names of the live items directly under parent, for
\* every observed parent.
C2_ChildrenMatchRemote ==
    (pc = "sleep" /\ restarts = 0)
        => \A parent \in ObservedParents :
                ChildrenOf(cache, parent) = LiveNamesUnder(parent)

C3_AddStep ==
    (IsApplyStep /\ ~Head(items).deleted /\ ~Has(cache, SpecPath(Head(items))))
        => LET it == Head(items)
               ckey == ChildrenKey(SpecParent(it))
           IN  cache' =
                 IF it.root THEN Put(cache, Slash, it)
                 ELSE Put(Put(cache, ckey, Append(Get(cache, ckey, <<>>), it.name)),
                          SpecPath(it), it)

C3_ScenarioA ==
    (/\ restarts = 0
     /\ Len(feed) = 1
     /\ feed[1].items = <<RootItem, DocsFolder>>
     /\ 1 \in done)
        => /\ Docs \in ChildrenOf(cache, Slash)
           /\ Has(cache, Slash \o Docs)
           /\ cache[Slash \o Docs].folder
           /\ Has(cache, Slash)
           /\ ~Has(cache, ChildrenKey(<<>>))

\* C3: applying a non-deleted item whose path is not in the index writes
\* item[path] with path = parentPath/name and appends the name to
\* children[parent]; a root item writes item['/'] and no children entry.  After
\* the page {root, folder docs under the root}, children['/'] contains docs and
\* item['/docs'] is a folder.
C3_AddWritesItemAndChild == [][C3_AddStep]_vars /\ []C3_ScenarioA

C3_Witness ==
    /\ restarts = 0
    /\ pc = "sleep"
    /\ Len(feed) = 1
    /\ feed[1].items = <<RootItem, DocsFolder>>
    /\ Has(cache, Slash \o Docs)
    /\ cache[Slash \o Docs] = DocsFolder
    /\ Get(cache, ChildrenKey(Slash), <<>>) = <<Docs>>

C5_ResumeFromCursor ==
    /\ (pc = "request" /\ ~polled)
            => nextlink = IF bootCursor # NoLink THEN bootCursor ELSE RootDelta
    /\ (restarts > 0 /\ bootCursor # NoLink /\ pc = "request")
            => nextlink \notin ckpt
    /\ (restarts > 0 /\ bootCursor # NoLink /\ pc = "items")
            => curPage \notin ckpt

C5_Witness ==
    /\ restarts = 1
    /\ bootCursor # NoLink
    /\ ckpt # {}
    /\ pc = "request"
    /\ ~polled
    /\ nextlink = bootCursor
    /\ nextlink # RootDelta

-----------------------------------------------------------------------------
(* Properties of the authenticator *)

Triple == <<access, expires, refreshTok>>

\* the step in which access_token returns to thread t
TokenReturns(t) == apc[t] = "L44" /\ apc'[t] = "returned"
\* the step in which the call of thread t raises e
Raises(t, e) ==
    /\ apc'[t] = "raised"
    /\ exc'[t] = e
    /\ apc[t] # "raised" \/ calls'[t] # calls[t]
\* the step in which thread t starts to read access_token
TokenCalled(t) == calls'[t] # calls[t] /\ inToken'[t]

\* C6: access_token raises NoTokenError exactly when access token and refresh
\* token are both absent; otherwise it returns a token that is unexpired when
\* it is returned, after a refresh when the cached token was missing or past
\* its expiry.
C6_TokenContract ==
    [][\A t \in Threads :
        /\ (Raises(t, "NoTokenError") /\ inToken'[t])
                => (access = NoToken /\ refreshTok = NoToken)
        /\ (TokenCalled(t) /\ access = NoToken /\ refreshTok = NoToken)
                => Raises(t, "NoTokenError")
        /\ (inToken'[t] /\ apc'[t] = "raised" /\ apc[t] # "raised")
                => exc'[t] = "NoTokenError"
        /\ TokenReturns(t)
                => /\ access # NoToken
                   /\ now < expiryOf[access]
                   /\ (seen[t].access = NoToken \/ seen[t].now >= seen[t].expires)
                        => nreq[t] >= 1]_vars

\* C7: a read of access_token that did not refresh returns the access token
\* of the same update as the expiry it judged the token by.
C7_NoTornRead ==
    \A t \in Threads :
        (apc[t] = "returned" /\ inToken[t] /\ nreq[t] = 0)
            => expiryOf[ret[t]] = seen[t].expires

\* C8: with a valid refresh token, a read of access_token that finds the
\* access token expired sends exactly one refresh request and leaves the
\* stored expiry later than the current time; a read that finds it unexpired
\* sends none.
C8_OneRefreshPerExpiry ==
    [][\A t \in Threads :
        (TokenReturns(t) /\ seen[t].access # NoToken /\ refreshTok \in valid)
            => /\ seen[t].now >= seen[t].expires
                    => (nreq[t] = 1 /\ expires > now)
               /\ seen[t].now < seen[t].expires => nreq[t] = 0]_vars

\* C9: access_token returns without a refresh only when the access token is
\* present and the current time is strictly before its expiry.
C9_TrustedStrictlyBeforeExpiry ==
    [][\A t \in Threads :
        (TokenReturns(t) /\ nreq[t] = 0)
            => (seen[t].access # NoToken /\ seen[t].now < seen[t].expires)]_vars

-----------------------------------------------------------------------------
(* Properties of the device-code grant *)

DeviceEnded == dpc \in {"returned", "raised"}
LastAnswer == IF answers = <<>> THEN "" ELSE answers[Len(answers)]
AllPending == \A i \in 1..Len(answers) : answers[i] = Pending
\* the polling loop was left because the device code's time was over
LoopTimedOut == dexp # 0 /\ AllPending

\* C11: authenticate() raises AuthorizationCanceledError when the user denied
\* consent, AuthorizationTimeoutError when the device code expires before a
\* grant and APIError for any other authority error; a pending answer is never
\* reported as a failure, and every failure leaves the token triple unchanged.
C11_AuthenticateFailures ==
    dpc = "raised" =>
        /\ LastAnswer = Declined => dexc = "AuthorizationCanceledError"
        /\ LoopTimedOut => dexc = "AuthorizationTimeoutError"
        /\ (LastAnswer = BadCode \/ dexp = 0) => dexc = "APIError"
        /\ LastAnswer = Pending => now >= dexp
        /\ <<access, expires, refreshTok>> = pre

\* C12: authenticate() ends; no poll request is sent at or after the device
\* code's expiry, and when every answer was authorization_pending the call
\* fails with AuthorizationTimeoutError once the expiry has passed.
C12_AuthenticateTerminates ==
    /\ <>DeviceEnded
    /\ [](\A i \in 1..Len(pollTimes) : pollTimes[i] < dexp)
    /\ []((DeviceEnded /\ LoopTimedOut)
            => (dexc = "AuthorizationTimeoutError" /\ now >= dexp))

C12_Witness ==
    /\ dpc = "raised"
    /\ dexc = "AuthorizationTimeoutError"
    /\ Len(answers) >= 2
    /\ AllPending

\* C13: after k pending answers and a grant, authenticate() has sent k + 1
\* poll requests, has slept the interval once after each pending answer and
\* before the next request, and has stored the granted tokens.
C13_PendingThenGrant ==
    dpc = "returned" =>
        LET k == Len(answers) - 1
        IN  /\ \A i \in 1..k : answers[i] = Pending
            /\ answers[k + 1] = Granted
            /\ Len(pollTimes) = k + 1
            /\ slept = k * interval
            /\ \A i \in 1..k : pollTimes[i + 1] >= pollTimes[i] + interval
            /\ access = data.access_token
            /\ dret = data.access_token
            /\ data.has_refresh => refreshTok = data.refresh_token
            /\ expires = now + data.expires_in

C13_Witness ==
    /\ dpc = "returned"
    /\ Len(answers) = 4
    /\ slept >= 3 * interval
    /\ refreshTok = RefreshOf(1)
    /\ pre[3] # RefreshOf(1)

-----------------------------------------------------------------------------
(* Properties of the persistent cache *)

StoredKeys == {k \in DbKeys : lastSet[k] # NoEntry}
AbsentFromTable(k) == \A i \in 1..Len(table) : table[i].key # Dumps(k)

\* C14: get(k) returns the value of the most recent set(k, v) not followed by
\* delete(k), and fails with KeyError when there is none; the table keeps one
\* row per key; a value set by one thread is what another thread gets.
C14_GetReturnsLastSet ==
    /\ [][dres'.op = "get" =>
            IF lastSet[dres'.key] = NoEntry
            THEN dres'.exc = "KeyError"
            ELSE dres'.exc = "" /\ dres'.val = lastSet[dres'.key].val]_vars
    /\ [][dres'.op = "set" => dres'.exc = ""]_vars
    /\ [](\A i, j \in 1..Len(table) : table[i].key = table[j].key => i = j)

C14_Witness ==
    /\ dres.op = "get"
    /\ dres.thread = 2
    /\ lastSet[dres.key].thread = 1
    /\ dres.val = 2
    /\ Len(table) = 2

\* C15: len() equals the number of keys set and not deleted since.
C15_LenCountsKeys ==
    [][dres'.op = "len" => dres'.val = Cardinality(StoredKeys)]_vars

\* C16: equality with another mapping holds exactly when both have the same
\* keys and every key maps to the same value in both.
C16_EqualityByContents ==
    [][dres'.op = "eq" =>
        (dres'.val = PyBool(TRUE) <=>
            /\ DOMAIN dres'.other.map = StoredKeys
            /\ \A k \in StoredKeys : dres'.other.map[k] = lastSet[k].val)]_vars

\* C17: get(k) and delete(k) of a key that is not in the table raise KeyError
\* and leave the table as it is.
C17_AbsentKeyRaises ==
    [][(dres'.op \in {"get", "del"} /\ AbsentFromTable(dres'.key))
        => (dres'.exc = "KeyError" /\ table' = table)]_vars

C17_Witness ==
    /\ dres.op = "del"
    /\ dres.exc = "KeyError"
    /\ Len(table) = 1

-----------------------------------------------------------------------------
(* Properties of the queries *)

\* the item entries of the index: the paths, not the keys of the other
\* namespaces
ItemEntries(c) == {k \in DOMAIN c : IsItemKey(k)}
IsFileItem(c, path) == path \in ItemEntries(c) /\ ~c[path].folder

\* C18: get_item_by_path(path) returns an item exactly when item[path] is in
\* the index (keys of the children, cursor and content-tag namespaces are not
\* item entries), and sends no request.
C18_LookupIffItemEntry ==
    [][qry'.op = "get_item_by_path" =>
        /\ (qry'.kind = "item" <=> qry'.path \in ItemEntries(cache))
        /\ qry'.ranges = <<>>]_vars

\* C19: get_item_by_path, children and get_contents leave every entry of the
\* index as it was, whatever they return.
C19_QueriesDoNotWrite ==
    [][qry'.op \in {"get_item_by_path", "children", "get_contents"}
        => cache' = cache]_vars

C19_Witness ==
    /\ qry.op = "children"
    /\ qry.kind = "list"
    /\ qry.val = <<>>
    /\ qry.path = Slash \o Docs

\* C20: for a file item, offset >= 0 and size > 0, every request of
\* get_contents carries the range offset .. offset + size - 1, a 200 or 206
\* response is answered by one request and its body is returned, a 304
\* response by one request and empty bytes; with size <= 0 the result is empty
\* bytes and no request is sent.
C20_RangedRead ==
    [][(qry'.op = "get_contents" /\ IsFileItem(cache, qry'.path)
            /\ qry'.size # None)
        => IF qry'.size[1] <= 0
           THEN qry'.kind = "bytes" /\ qry'.val = NoBytes /\ qry'.ranges = <<>>
           ELSE qry'.offset # None =>
                LET lo == qry'.offset[1]
                    hi == qry'.offset[1] + qry'.size[1] - 1
                IN  /\ Len(qry'.ranges) >= 1
                    /\ \A i \in 1..Len(qry'.ranges) :
                          qry'.ranges[i] = [lo |-> lo, hi |-> hi]
                    /\ qry'.answer.status \in {200, 206} =>
                          /\ Len(qry'.ranges) = 1
                          /\ qry'.kind = "bytes"
                          /\ qry'.val = qry'.answer.body
                    /\ qry'.answer.status = 304 =>
                          /\ Len(qry'.ranges) = 1
                          /\ qry'.kind = "bytes"
                          /\ qry'.val = NoBytes]_vars

\* Scenario C: offset 10 and size 5 ask for bytes 10-14, and a 206 response
\* gives these five bytes.
C20_Witness ==
    /\ qry.op = "get_contents"
    /\ qry.offset = Some(10)
    /\ qry.size = Some(5)
    /\ qry.ranges = <<[lo |-> 10, hi |-> 14]>>
    /\ qry.answer.status = 206
    /\ qry.val = <<10, 11, 12, 13, 14>>

-----------------------------------------------------------------------------
(* Properties of the poll loop *)

\* C22: the persisted cursor is the delta link of a page only once every item
\* of that page has been applied, and the pages are applied in the order the
\* server delivered them.
PagesInOrder == [][restarts' = restarts => curPage' >= curPage]_vars
CursorOnlyOfAppliedPage ==
    DeltaLinkOf(cache) # NoLink => (DeltaLinkOf(cache) - 1) \in done

C22_CursorAfterPageApplied == []CursorOnlyOfAppliedPage /\ PagesInOrder

\* C23: no failed poll ends the poll loop: after a request that failed in
\* transport, in decoding or by a response that is not a delta page, the
\* thread is still running.
C23_FailedPollKeepsLoop ==
    [][pc = "request" => pc' # "dead"]_vars

\* C24: a request that fails in transport or decoding changes neither the
\* cursor nor any index entry, and after the sleep the request goes to the
\* same link.
C24_RetrySameLink ==
    /\ [][(pc = "request" /\ pc' = "retry")
            => (cache' = cache /\ nextlink' = nextlink)]_vars
    /\ [][(pc = "retry" /\ restarts' = restarts)
            => (pc' = "request" /\ cache' = cache /\ nextlink' = nextlink)]_vars

C24_Witness ==
    /\ pc = "retry"
    /\ nextlink = RootDelta + 1
    /\ polled

\* the keys of the children namespace
ChildrenKeys(c) == {k \in DOMAIN c : k # <<>> /\ Head(k) = "c"}

\* C25: while the poll loop sleeps between two polls, every name listed in
\* children[p] has an item entry at p/name.
C25_ChildrenHaveItems ==
    pc = "sleep" =>
        \A k \in ChildrenKeys(cache) :
            \A n \in Elems(cache[k]) : Has(cache, ChildPath(Tail(k), n))

-----------------------------------------------------------------------------
(* Properties of the registry *)

\* C21: a call of get_drive or get_me_drive whose lookup response carries an
\* error payload raises APIError, returns no engine and starts no poll loop.
C21_LookupErrorIsAPIError ==
    [][reg'.lookupError =>
          /\ reg'.exc = "APIError"
          /\ reg'.engine = NoEngine
          /\ engines' = engines]_vars

-----------------------------------------------------------------------------
(* Properties of concurrent use *)

InChildrenUpdate(e) == kpc[e] \in {"locked", "loaded"}

\* no two engines of the drive are inside a children update at once
ChildrenUpdatesExclusive ==
    \A e, f \in Engines :
        e # f => ~(InChildrenUpdate(e) /\ InChildrenUpdate(f))

\* the list an update writes is the list in the cache with the one name
\* appended or removed
NoChildrenUpdateLost ==
    [][\A e \in Engines :
          (kpc[e] = "loaded" /\ kpc'[e] = "idle") => kids' = Modified(kids, kop[e])]_vars

\* a reader gets the list as it is between two whole updates
ReaderSeesWholeUpdates == [][kseen' # kseen => kseen' = kids]_vars

\* C26: the read-modify-write sequences of all engines bound to one drive's
\* cache exclude each other, so that no update of a children list is lost
\* and a reader sees the list before or after a whole update.
C26_ChildrenUpdatesAtomic ==
    /\ []ChildrenUpdatesExclusive
    /\ NoChildrenUpdateLost
    /\ ReaderSeesWholeUpdates

\* C27: a filesystem handler that runs while the poll thread deletes the
\* path it was called with returns the item's answer or not-found; it never
\* ends with the KeyError of an item entry that went away after the lookup.
C27_QuerySeesItemOrNotFound == fsq.res # "KeyError"

RowsWithKey(rows, k) == {i \in 1..Len(rows) : rows[i].key = Dumps(k)}

\* both calls have tested the key (line 121) and found it absent
BothSawAbsent(t, u) ==
    /\ t # u
    /\ setter[t].key = setter[u].key
    /\ setter[t].at \in {"write", "commit", "done"}
    /\ setter[u].at \in {"write", "commit", "done"}
    /\ ~setter[t].sawKey
    /\ ~setter[u].sawKey

\* C28: two threads that set the same absent key at the same time both
\* complete without an error, and the table then holds one row for the key,
\* with one of the two values.
C28_ConcurrentSetsComplete ==
    \A t, u \in Threads :
        BothSawAbsent(t, u) =>
            /\ setter[t].exc = "" /\ setter[u].exc = ""
            /\ (setter[t].at = "done" /\ setter[u].at = "done") =>
                  \E i \in 1..Len(table) :
                      /\ RowsWithKey(table, setter[t].key) = {i}
                      /\ Loads(table[i].value) \in {setter[t].val, setter[u].val}

=============================================================================
